---- MODULE Spec2Model ----
(***************************************************************************)
(* SmartTodoAI: the task store (tasks/models.py), its request handlers     *)
(* (tasks/views.py, tasks/serializers.py) and the suggestion engine with   *)
(* its keyword fallbacks (tasks/ai_module.py).                             *)
(*                                                                         *)
(* Conventions.                                                            *)
(*  - A Python str that the code inspects (strip, lower, substring test)   *)
(*    is a sequence of one-character strings.  Names that are only         *)
(*    compared (category names, tags, status values) are TLA+ strings.     *)
(*  - An Optional value is a sequence of length at most one: << >> is      *)
(*    None and <<v>> is the value v.                                       *)
(*  - A datetime is an integer number of days; timedelta(days=n) is n.     *)
(*  - A float score is an integer number of tenths (0.9 is 9).             *)
(***************************************************************************)
EXTENDS Integers, Sequences, FiniteSets, TLC

VARIABLES
    tasks,       \* Task table: id -> row
    contexts,    \* ContextEntry table: id -> row
    categories,  \* Category table: id -> the row's name
    now,         \* timezone.now(), in days
    api_key,     \* AITaskManager.api_key: << >> when no credential is configured
    request,     \* the last request handled
    response,    \* the response sent for it
    arg,         \* inputs of a direct call of a suggestion-engine function
    ret,         \* what that call returned
    handling     \* the requests being handled step by step: worker -> its position

vars == <<tasks, contexts, categories, now, api_key, request, response, arg, ret,
         handling>>

store == <<tasks, contexts, categories>>

(***************************************************************************)
(* Bounds of the model.                                                    *)
(***************************************************************************)
MaxWords == 2        \* words in a title drawn for a direct call
MaxWorkload == 10    \* open-task count drawn for a direct call

(***************************************************************************)
(* Python str operations.                                                  *)
(***************************************************************************)
UpperCase == <<"A", "B", "C", "D", "E", "F", "G", "H", "I", "J", "K", "L", "M",
               "N", "O", "P", "Q", "R", "S", "T", "U", "V", "W", "X", "Y", "Z">>

LowerCase == <<"a", "b", "c", "d", "e", "f", "g", "h", "i", "j", "k", "l", "m",
               "n", "o", "p", "q", "r", "s", "t", "u", "v", "w", "x", "y", "z">>

\* str.lower() on one character
LowerChar(c) ==
    IF \E i \in 1..Len(UpperCase) : UpperCase[i] = c
    THEN LowerCase[CHOOSE i \in 1..Len(UpperCase) : UpperCase[i] = c]
    ELSE c

\* str.lower()
Lower(s) == [i \in 1..Len(s) |-> LowerChar(s[i])]

\* str.strip(): leading and trailing whitespace removed
Strip(s) ==
    LET keep == {i \in 1..Len(s) : s[i] # " "}
    IN  IF keep = {} THEN << >>
        ELSE LET lo == CHOOSE i \in keep : \A j \in keep : i <= j
                 hi == CHOOSE i \in keep : \A j \in keep : j <= i
             IN  SubSeq(s, lo, hi)

\* word in text (substring test)
Contains(text, word) ==
    \E i \in 0..(Len(text) - Len(word)) : SubSeq(text, i + 1, i + Len(word)) = word

\* sum(1 for word in words if word in text)
CountIn(words, text) == Cardinality({i \in 1..Len(words) : Contains(text, words[i])})

\* any(word in text for word in words)
AnyIn(words, text) == \E i \in 1..Len(words) : Contains(text, words[i])

(***************************************************************************)
(* Fallback heuristics of the suggestion engine (ai_module.py).            *)
(***************************************************************************)
urgency_words ==
    << <<"u", "r", "g", "e", "n", "t">>,
       <<"a", "s", "a", "p">>,
       <<"i", "m", "m", "e", "d", "i", "a", "t", "e", "l", "y">>,
       <<"d", "e", "a", "d", "l", "i", "n", "e">>,
       <<"d", "u", "e">>,
       <<"i", "m", "p", "o", "r", "t", "a", "n", "t">>,
       <<"c", "r", "i", "t", "i", "c", "a", "l">>,
       <<"e", "m", "e", "r", "g", "e", "n", "c", "y">> >>

\* urgency_count of _fallback_priority_calculation: text = f"{title} {description}".lower()
UrgencyCount(title, description) ==
    CountIn(urgency_words, Lower(title \o <<" ">> \o description))

\* A slip that counts the title only.
FallbackPriorityTitleOnly(title, description) ==
    LET urgency_count == CountIn(urgency_words, Lower(title))
    IN  IF urgency_count >= 2 THEN 9
        ELSE IF urgency_count = 1 THEN 7
        ELSE 5

FallbackPriorityCalculation(title, description) ==
    LET urgency_count == UrgencyCount(title, description)
    IN  IF urgency_count >= 2 THEN 9
        ELSE IF urgency_count = 1 THEN 7
        ELSE 5

\* A slip that drops the cap of seven days.
FallbackDeadlineUncapped(title, workload, t) == <<t + workload + 1>>

\* days_to_add = min(workload + 1, 7); timezone.now() + timedelta(days=days_to_add)
FallbackDeadlineSuggestion(title, workload, t) ==
    LET days_to_add == IF workload + 1 < 7 THEN workload + 1 ELSE 7
    IN  <<t + days_to_add>>

WorkWords ==
    << <<"w", "o", "r", "k">>, <<"j", "o", "b">>, <<"o", "f", "f", "i", "c", "e">>,
       <<"m", "e", "e", "t", "i", "n", "g">>, <<"p", "r", "o", "j", "e", "c", "t">> >>

HomeWords ==
    << <<"h", "o", "m", "e">>, <<"h", "o", "u", "s", "e">>, <<"c", "l", "e", "a", "n">>,
       <<"c", "o", "o", "k">>, <<"g", "a", "r", "d", "e", "n">> >>

HealthWords ==
    << <<"h", "e", "a", "l", "t", "h">>, <<"e", "x", "e", "r", "c", "i", "s", "e">>,
       <<"g", "y", "m">>, <<"d", "o", "c", "t", "o", "r">>,
       <<"m", "e", "d", "i", "c", "a", "l">> >>

LearningWords ==
    << <<"l", "e", "a", "r", "n">>, <<"s", "t", "u", "d", "y">>,
       <<"c", "o", "u", "r", "s", "e">>, <<"b", "o", "o", "k">>, <<"r", "e", "a", "d">> >>

\* A slip that files every report under Work.
FallbackCategorizationReportIsWork(title) ==
    LET title_lower == Lower(title)
    IN  IF AnyIn(WorkWords \o << <<"r", "e", "p", "o", "r", "t">> >>, title_lower)
            THEN [category |-> <<"Work">>, tags |-> <<"work", "professional">>]
        ELSE [category |-> <<"Personal">>, tags |-> <<"personal", "general">>]

\* A slip that tests the Home bucket before the Work bucket.
FallbackCategorizationHomeFirst(title) ==
    LET title_lower == Lower(title)
    IN  IF AnyIn(HomeWords, title_lower)
            THEN [category |-> <<"Home">>, tags |-> <<"home", "household">>]
        ELSE IF AnyIn(WorkWords, title_lower)
            THEN [category |-> <<"Work">>, tags |-> <<"work", "professional">>]
        ELSE IF AnyIn(HealthWords, title_lower)
            THEN [category |-> <<"Health">>, tags |-> <<"health", "wellness">>]
        ELSE IF AnyIn(LearningWords, title_lower)
            THEN [category |-> <<"Learning">>, tags |-> <<"learning", "education">>]
        ELSE [category |-> <<"Personal">>, tags |-> <<"personal", "general">>]

\* (category, tags)
FallbackCategorization(title) ==
    LET title_lower == Lower(title)
    IN  IF AnyIn(WorkWords, title_lower)
            THEN [category |-> <<"Work">>, tags |-> <<"work", "professional">>]
        ELSE IF AnyIn(HomeWords, title_lower)
            THEN [category |-> <<"Home">>, tags |-> <<"home", "household">>]
        ELSE IF AnyIn(HealthWords, title_lower)
            THEN [category |-> <<"Health">>, tags |-> <<"health", "wellness">>]
        ELSE IF AnyIn(LearningWords, title_lower)
            THEN [category |-> <<"Learning">>, tags |-> <<"learning", "education">>]
        ELSE [category |-> <<"Personal">>, tags |-> <<"personal", "general">>]

\* f"Task: {title}. Please add more details as needed."
FallbackDescriptionEnhancement(title, description) ==
    IF description # << >> THEN description
    ELSE <<"T", "a", "s", "k", ":", " ">> \o title
         \o <<".", " ", "P", "l", "e", "a", "s", "e", " ", "a", "d", "d", " ",
              "m", "o", "r", "e", " ", "d", "e", "t", "a", "i", "l", "s", " ",
              "a", "s", " ", "n", "e", "e", "d", "e", "d", ".">>

(***************************************************************************)
(* The external completion service.  What it can send back is drawn from   *)
(* the reply texts below; every other outcome of the request is one of the *)
(* failure kinds.                                                          *)
(***************************************************************************)
ReplyScoreInRange ==
    <<" ", "0", ".", "8", " ">>

ReplyScoreTooHigh ==
    <<"1", ".", "5">>

ReplyScoreWord ==
    <<"h", "i", "g", "h">>

ReplyDeadlineNone ==
    <<"N", "o", "n", "e">>

ReplyDeadlineDate ==
    <<"2", "0", "3", "0", "-", "0", "1", "-", "1", "5", " ", "0", "9", ":", "0", "0">>

ReplyDeadlineWord ==
    <<"n", "e", "x", "t", " ", "w", "e", "e", "k">>

ReplyCategoryObject ==
    <<"{", "\"", "c", "a", "t", "e", "g", "o", "r", "y", "\"", ":", " ", "\"", "F", "i",
      "n", "a", "n", "c", "e", "\"", ",", " ", "\"", "t", "a", "g", "s", "\"", ":", " ",
      "[", "\"", "m", "o", "n", "e", "y", "\"", "]", "}">>

ReplyCategoryNull ==
    <<"{", "\"", "c", "a", "t", "e", "g", "o", "r", "y", "\"", ":", " ", "n", "u", "l",
      "l", "}">>

ReplyJsonArray ==
    <<"[", "]">>

ReplyProse ==
    <<"S", "u", "r", "e", "!">>

ReplyDescription ==
    <<" ", "W", "r", "i", "t", "e", " ", "i", "t", ".", " ">>

ReplyAnalysisObject ==
    <<"{", "\"", "s", "e", "n", "t", "i", "m", "e", "n", "t", "\"", ":", " ", "\"", "P",
      "o", "s", "i", "t", "i", "v", "e", "\"", ",", " ", "\"", "p", "r", "i", "o", "r",
      "i", "t", "i", "e", "s", "\"", ":", " ", "[", "\"", "u", "r", "g", "e", "n", "t",
      "\"", "]", ",", " ", "\"", "k", "e", "y", "w", "o", "r", "d", "s", "\"", ":", " ",
      "[", "\"", "r", "e", "p", "o", "r", "t", "\"", "]", "}">>

ReplyAnalysisNullSentiment ==
    <<"{", "\"", "s", "e", "n", "t", "i", "m", "e", "n", "t", "\"", ":", " ", "n", "u",
      "l", "l", "}">>

FailureKinds == {"network_error", "timeout", "status_not_200", "malformed_body"}

\* the outcomes of one request whose successful replies are drawn from `texts`
Outcomes(texts) ==
    {[kind |-> k, text |-> << >>] : k \in FailureKinds}
        \cup {[kind |-> "ok", text |-> t] : t \in texts}

\* _call_ai_api: Optional[str]
CallAiApi(key, outcome) ==
    IF key = << >> THEN << >>
    ELSE IF outcome.kind = "ok" THEN <<outcome.text>>
    ELSE << >>

\* what _call_ai_api can return to one caller
ApiResults(key, texts) == {CallAiApi(key, o) : o \in Outcomes(texts)}

\* `if response:` on an Optional[str]
Truthy(resp) == resp # << >> /\ resp[1] # << >>

(***************************************************************************)
(* Library parsers, on the texts the service can send: << >> is the raised *)
(* ValueError / JSONDecodeError.                                           *)
(***************************************************************************)
\* float(s), in tenths
PyFloat(s) ==
    IF s = <<"0", ".", "8">> THEN <<8>>
    ELSE IF s = <<"1", ".", "5">> THEN <<15>>
    ELSE << >>

\* datetime.strptime(s, "%Y-%m-%d %H:%M"), in days
Strptime(s) ==
    IF s = ReplyDeadlineDate THEN <<30>> ELSE << >>

\* a JSON value: t is its type, v its content ("absent" is a missing key)
JStr(s) == [t |-> "str", v |-> <<s>>]
JList(l) == [t |-> "list", v |-> l]
JNull == [t |-> "null", v |-> << >>]
JAbsent == [t |-> "absent", v |-> << >>]

JObject == [kind |-> "object", category |-> JAbsent, tags |-> JAbsent,
            topics |-> JAbsent, deadlines |-> JAbsent, priorities |-> JAbsent,
            sentiment |-> JAbsent, action_items |-> JAbsent, keywords |-> JAbsent]

\* json.loads(s)
JsonLoads(s) ==
    IF s = ReplyCategoryObject
        THEN <<[JObject EXCEPT !.category = JStr("Finance"), !.tags = JList(<<"money">>)]>>
    ELSE IF s = ReplyCategoryNull
        THEN <<[JObject EXCEPT !.category = JNull]>>
    ELSE IF s = ReplyAnalysisObject
        THEN <<[JObject EXCEPT !.sentiment = JStr(<<"P", "o", "s", "i", "t", "i", "v", "e">>),
                               !.priorities = JList(<<"urgent">>),
                               !.keywords = JList(<<"report">>)]>>
    ELSE IF s = ReplyAnalysisNullSentiment
        THEN <<[JObject EXCEPT !.sentiment = JNull]>>
    ELSE IF s = ReplyJsonArray
        THEN <<[JObject EXCEPT !.kind = "array"]>>
    ELSE << >>

\* dict.get(key, default) on a parsed value
Get(value, default) == IF value.t = "absent" THEN default ELSE value

(***************************************************************************)
(* The suggestion engine (AITaskManager).  Each operation takes what       *)
(* _call_ai_api returned for its prompt.                                   *)
(***************************************************************************)
PrioritizeTask(title, description, resp) ==
    IF Truthy(resp)
    THEN LET f == PyFloat(Strip(resp[1]))
         IN  IF f # << >> THEN f[1]
             ELSE FallbackPriorityCalculation(title, description)
    ELSE FallbackPriorityCalculation(title, description)

SuggestDeadline(title, description, current_workload, resp, t) ==
    IF Truthy(resp) /\ Lower(Strip(resp[1])) # <<"n", "o", "n", "e">>
    THEN LET d == Strptime(Strip(resp[1]))
         IN  IF d # << >> THEN d
             ELSE FallbackDeadlineSuggestion(title, current_workload, t)
    ELSE << >>

\* (category_name, tags); a category that is not a str is None, "" or stays as parsed
SuggestCategoriesAndTags(title, description, resp) ==
    IF Truthy(resp)
    THEN LET parsed == JsonLoads(resp[1])
         IN  IF parsed = << >> THEN FallbackCategorization(title)
             ELSE IF parsed[1].kind # "object" THEN FallbackCategorization(title)
             ELSE [category |-> Get(parsed[1].category, JStr("General")).v,
                   tags |-> Get(parsed[1].tags, JList(<< >>)).v]
    ELSE FallbackCategorization(title)

EnhanceTaskDescription(title, description, resp) ==
    IF Truthy(resp) THEN Strip(resp[1])
    ELSE FallbackDescriptionEnhancement(title, description)

(***************************************************************************)
(* The context analyzer.                                                   *)
(***************************************************************************)
\* \w of the regular expression
IsWordChar(c) ==
    \/ \E i \in 1..Len(LowerCase) : LowerCase[i] = c \/ UpperCase[i] = c
    \/ c \in {"0", "1", "2", "3", "4", "5", "6", "7", "8", "9", "_"}

RECURSIVE WordRuns(_, _, _)
\* re.findall(r'\b\w{4,}\b', s): the maximal runs of word characters, four or longer
WordRuns(s, i, run) ==
    LET found == IF Len(run) >= 4 THEN <<run>> ELSE << >>
    IN  IF i > Len(s) THEN found
        ELSE IF IsWordChar(s[i]) THEN WordRuns(s, i + 1, Append(run, s[i]))
        ELSE found \o WordRuns(s, i + 1, << >>)

stop_words ==
    { <<"t", "h", "i", "s">>, <<"t", "h", "a", "t">>, <<"w", "i", "t", "h">>,
      <<"f", "r", "o", "m">>, <<"t", "h", "e", "y">>, <<"h", "a", "v", "e">>,
      <<"w", "i", "l", "l">>, <<"b", "e", "e", "n">>, <<"w", "e", "r", "e">> }

\* the urgency_words of _fallback_context_analysis
context_urgency_words ==
    << <<"u", "r", "g", "e", "n", "t">>,
       <<"a", "s", "a", "p">>,
       <<"i", "m", "m", "e", "d", "i", "a", "t", "e", "l", "y">>,
       <<"d", "e", "a", "d", "l", "i", "n", "e">>,
       <<"d", "u", "e">>,
       <<"i", "m", "p", "o", "r", "t", "a", "n", "t">>,
       <<"c", "r", "i", "t", "i", "c", "a", "l">> >>

\* seq[:n]
Take(seq, n) == SubSeq(seq, 1, IF Len(seq) < n THEN Len(seq) ELSE n)

FallbackContextAnalysis(context_text) ==
    LET keywords == SelectSeq(WordRuns(Lower(context_text), 1, << >>),
                              LAMBDA k : k \notin stop_words)
        urgency_score == CountIn(context_urgency_words, Lower(context_text))
    IN  [JObject EXCEPT
            !.topics = JList(Take(keywords, 5)),
            !.deadlines = JList(<< >>),
            !.priorities = JList(<<IF urgency_score > 0 THEN "high" ELSE "normal">>),
            !.sentiment = JStr(<<"n", "e", "u", "t", "r", "a", "l">>),
            !.action_items = JList(<< >>),
            !.keywords = JList(Take(keywords, 10))]

\* whatever json.loads returned, or the fallback bundle
AnalyzeContext(context_text, source_type, resp) ==
    IF Truthy(resp)
    THEN LET parsed == JsonLoads(resp[1])
         IN  IF parsed = << >> THEN FallbackContextAnalysis(context_text)
             ELSE parsed[1]
    ELSE FallbackContextAnalysis(context_text)

\* _calculate_sentiment_score: sentiment_map.get(sentiment.lower(), 0.5)
CalculateSentimentScore(sentiment) ==
    LET s == Lower(sentiment)
    IN  IF s = <<"p", "o", "s", "i", "t", "i", "v", "e">> THEN 8
        ELSE IF s = <<"n", "e", "g", "a", "t", "i", "v", "e">> THEN 2
        ELSE 5

\* x in list
InList(x, l) == \E i \in 1..Len(l) : l[i] = x

\* _calculate_priority_score
CalculatePriorityScore(analysis) ==
    LET priorities == Get(analysis.priorities, JList(<< >>)).v
    IN  IF InList("high", priorities) \/ InList("urgent", priorities) THEN 8
        ELSE IF InList("important", priorities) THEN 6
        ELSE 4

\* perform_create raises AttributeError / TypeError on an analysis of another shape
AnalysisRaises(analysis) ==
    \/ analysis.kind # "object"
    \/ Get(analysis.sentiment, JStr(<<"n", "e", "u", "t", "r", "a", "l">>)).t # "str"
    \/ Get(analysis.priorities, JList(<< >>)).t = "null"

(***************************************************************************)
(* The store and the request handlers.                                     *)
(***************************************************************************)
MaxTasks == 1        \* rows the Task table can hold
MaxContexts == 1     \* rows the ContextEntry table can hold
MaxTime == 1         \* days the clock can advance

Users == {"alice", "bob"}

STATUS_CHOICES == {"pending", "in_progress", "completed", "cancelled"}

TitleFinishUrgent ==
    <<"F", "i", "n", "i", "s", "h", " ", "u", "r", "g", "e", "n", "t", " ", "r", "e", "p",
      "o", "r", "t", " ", "A", "S", "A", "P">>

TitleBlank ==
    <<" ", " ">>

ContentNote ==
    <<"R", "e", "p", "o", "r", "t", " ", "i", "s", " ", "d", "u", "e", " ", "F", "r", "i",
      "d", "a", "y">>

\* Task(...) with the model's field defaults
NewTask(user) ==
    [user |-> user, title |-> << >>, description |-> << >>, status |-> "pending",
     priority |-> "medium", priority_score |-> 0, due_date |-> << >>,
     suggested_deadline |-> << >>, category |-> << >>, tags |-> << >>,
     ai_enhanced_description |-> << >>, completed_at |-> << >>]

\* ContextEntry(...) with the model's field defaults
NewContextEntry(user, content, source_type) ==
    [user |-> user, content |-> content, source_type |-> source_type,
     processed_insights |-> JObject, priority_score |-> 0, keywords |-> JList(<< >>),
     sentiment_score |-> 0]

\* the primary key of the next inserted row
NextId(table) == CHOOSE i \in 1..(Cardinality(DOMAIN table) + 1) : i \notin DOMAIN table

Insert(table, id, row) ==
    [i \in DOMAIN table \cup {id} |-> IF i = id THEN row ELSE table[i]]

Delete(table, id) == [i \in DOMAIN table \ {id} |-> table[i]]

\* the names the rows of the Category table carry
CategoryNames == {categories[i] : i \in DOMAIN categories}

\* Category.objects.get_or_create(name=name), run alone: the table afterwards
GetOrCreate(table, name) ==
    IF \E i \in DOMAIN table : table[i] = name THEN table
    ELSE Insert(table, NextId(table), name)

\* TaskViewSet.get_queryset: Task.objects.filter(user=self.request.user)
TaskQuerySet(user) == {i \in DOMAIN tasks : tasks[i].user = user}

\* ContextEntryViewSet.get_queryset
ContextQuerySet(user) == {i \in DOMAIN contexts : contexts[i].user = user}

\* Task.objects.filter(user=request.user, status='pending').count()
CurrentWorkload(user) == Cardinality({i \in TaskQuerySet(user) : tasks[i].status = "pending"})

\* validate_title: << >> is the ValidationError, <<value.strip()>> the validated value
ValidateTitle(value) == IF Strip(value) = << >> THEN << >> ELSE <<Strip(value)>>

\* validate_due_date raises: value and value < timezone.now()
DueDateInPast(value, t) == value # << >> /\ value[1] < t

NoBody == [kind |-> "none"]

NoRequest == [op |-> "none", user |-> "", id |-> 0, data |-> NoBody]

NoResponse == [code |-> 0, id |-> 0, body |-> NoBody]

\* the request handled and the response sent for it
Handled(op, user, id, data, code, newid, body) ==
    /\ request' = [op |-> op, user |-> user, id |-> id, data |-> data]
    /\ response' = [code |-> code, id |-> newid, body |-> body]

\* TaskCreateSerializer.create: the row it saves
TaskCreateRow(user, title, description, due_date, rs, rd, rc, re) ==
    LET priority_score == PrioritizeTask(title, description, rs)
        suggested_deadline ==
            SuggestDeadline(title, description, CurrentWorkload(user), rd, now)
        suggestion == SuggestCategoriesAndTags(title, description, rc)
        named == suggestion.category # << >> /\ suggestion.category[1] # ""
        enhanced_description == EnhanceTaskDescription(title, description, re)
    IN  [NewTask(user) EXCEPT
            !.title = title,
            !.description = description,
            !.due_date = due_date,
            !.priority_score = priority_score,
            !.suggested_deadline = suggested_deadline,
            !.category = IF named THEN suggestion.category ELSE << >>,
            !.tags = IF named THEN suggestion.tags ELSE << >>,
            !.ai_enhanced_description = enhanced_description]

\* POST /tasks/ : TaskCreateSerializer validation, then create
CreateTask(user, data, rs, rd, rc, re) ==
    IF ValidateTitle(data.title) = << >>
    THEN /\ Handled("create", user, 0, data, 400, 0, NoBody)
         /\ UNCHANGED <<tasks, contexts, categories, now, api_key, arg, ret, handling>>
    ELSE /\ Cardinality(DOMAIN tasks) < MaxTasks
         /\ \E id \in {NextId(tasks)},
               row \in {TaskCreateRow(user, ValidateTitle(data.title)[1], data.description,
                                      data.due_date, rs, rd, rc, re)} :
                /\ tasks' = Insert(tasks, id, row)
                /\ categories' = IF row.category = << >> THEN categories
                                 ELSE GetOrCreate(categories, row.category[1])
                /\ Handled("create", user, 0, data, 201, id, NoBody)
         /\ UNCHANGED <<contexts, now, api_key, arg, ret, handling>>

\* TaskSerializer.update: the row it saves, for validated data
TaskUpdateRow(instance, data, t) ==
    LET completed_at ==
            IF data.status = << >> THEN instance.completed_at
            ELSE IF data.status[1] = "completed" THEN <<t>>
            ELSE << >>
    IN  [instance EXCEPT
            !.title = IF data.title = << >> THEN @ ELSE Strip(data.title[1]),
            !.status = IF data.status = << >> THEN @ ELSE data.status[1],
            !.due_date = IF data.due_date = << >> THEN @ ELSE data.due_date[1],
            !.user = IF data.user_id = << >> THEN @ ELSE data.user_id[1],
            !.completed_at = completed_at]

\* PATCH /tasks/<id>/ : TaskSerializer validation, then update.  Every field of
\* data is an Optional: << >> when the request does not carry it.
UpdateTask(user, id, data) ==
    IF id \notin TaskQuerySet(user)
    THEN /\ Handled("update", user, id, data, 404, 0, NoBody)
         /\ UNCHANGED <<tasks, contexts, categories, now, api_key, arg, ret, handling>>
    ELSE IF \/ (data.title # << >> /\ ValidateTitle(data.title[1]) = << >>)
            \/ (data.due_date # << >> /\ DueDateInPast(data.due_date[1], now))
    THEN /\ Handled("update", user, id, data, 400, 0, NoBody)
         /\ UNCHANGED <<tasks, contexts, categories, now, api_key, arg, ret, handling>>
    ELSE /\ tasks' = [tasks EXCEPT ![id] = TaskUpdateRow(tasks[id], data, now)]
         /\ Handled("update", user, id, data, 200, id, NoBody)
         /\ UNCHANGED <<contexts, categories, now, api_key, arg, ret, handling>>

\* toggle_status: the row it saves
ToggleRow(task) ==
    IF task.status = "pending" THEN [task EXCEPT !.status = "completed"]
    ELSE IF task.status = "completed" THEN [task EXCEPT !.status = "pending"]
    ELSE task

\* PATCH /tasks/<id>/toggle_status/
ToggleStatus(user, id) ==
    IF id \notin TaskQuerySet(user)
    THEN /\ Handled("toggle_status", user, id, NoBody, 404, 0, NoBody)
         /\ UNCHANGED <<tasks, contexts, categories, now, api_key, arg, ret, handling>>
    ELSE /\ tasks' = [tasks EXCEPT ![id] = ToggleRow(tasks[id])]
         /\ Handled("toggle_status", user, id, NoBody, 200, id, NoBody)
         /\ UNCHANGED <<contexts, categories, now, api_key, arg, ret, handling>>

\* DELETE /tasks/<id>/
DestroyTask(user, id) ==
    IF id \notin TaskQuerySet(user)
    THEN /\ Handled("destroy", user, id, NoBody, 404, 0, NoBody)
         /\ UNCHANGED <<tasks, contexts, categories, now, api_key, arg, ret, handling>>
    ELSE /\ tasks' = Delete(tasks, id)
         /\ Handled("destroy", user, id, NoBody, 204, 0, NoBody)
         /\ UNCHANGED <<contexts, categories, now, api_key, arg, ret, handling>>

\* A slip that cuts the rate off after the first decimal.
CompletionRateTruncated(completed, total) ==
    IF total > 0 THEN (1000 * completed) \div total ELSE 0

\* round(completed / total * 100, 1), in tenths of a percent; round() sends a tie to
\* the even neighbour
CompletionRate(completed, total) ==
    IF total > 0
    THEN LET q == (1000 * completed) \div total
             r == (1000 * completed) % total
         IN  IF 2 * r > total THEN q + 1
             ELSE IF 2 * r = total THEN q + (q % 2)
             ELSE q
    ELSE 0

\* the body of stats
StatsOf(user) ==
    LET queryset == TaskQuerySet(user)
        Count(P(_)) == Cardinality({i \in queryset : P(tasks[i])})
        total_tasks == Cardinality(queryset)
        completed_tasks == Count(LAMBDA r : r.status = "completed")
    IN  [kind |-> "stats",
         total |-> total_tasks,
         completed |-> completed_tasks,
         pending |-> Count(LAMBDA r : r.status = "pending"),
         in_progress |-> Count(LAMBDA r : r.status = "in_progress"),
         high_priority |-> Count(LAMBDA r : r.priority_score >= 7),
         overdue |-> Count(LAMBDA r : /\ r.due_date # << >>
                                      /\ r.due_date[1] < now
                                      /\ r.status \in {"pending", "in_progress"}),
         completion_rate |-> CompletionRate(completed_tasks, total_tasks)]

\* GET /tasks/stats/
Stats(user) ==
    /\ Handled("stats", user, 0, NoBody, 200, 0, StatsOf(user))
    /\ UNCHANGED <<tasks, contexts, categories, now, api_key, arg, ret, handling>>

\* the body of ai_suggestions
SuggestionsOf(user, title, description, rs, rd, rc, re) ==
    LET suggestion == SuggestCategoriesAndTags(title, description, rc)
    IN  [kind |-> "suggestions",
         priority_score |-> PrioritizeTask(title, description, rs),
         suggested_deadline |->
             SuggestDeadline(title, description, CurrentWorkload(user), rd, now),
         category |-> suggestion.category,
         tags |-> suggestion.tags,
         enhanced_description |-> EnhanceTaskDescription(title, description, re)]

\* A slip that saves the suggested category, as task creation does.
AiSuggestionsSavingCategory(user, data, rs, rd, rc, re) ==
    IF data.title = << >>
    THEN /\ Handled("ai_suggestions", user, 0, data, 400, 0, NoBody)
         /\ UNCHANGED <<tasks, contexts, categories, now, api_key, arg, ret, handling>>
    ELSE /\ \E body \in {SuggestionsOf(user, data.title, data.description, rs, rd, rc, re)} :
                /\ Handled("ai_suggestions", user, 0, data, 200, 0, body)
                /\ categories' = IF body.category = << >> THEN categories
                                 ELSE GetOrCreate(categories, body.category[1])
         /\ UNCHANGED <<tasks, contexts, now, api_key, arg, ret, handling>>

\* POST /context/ai_suggestions/
AiSuggestions(user, data, rs, rd, rc, re) ==
    IF data.title = << >>
    THEN /\ Handled("ai_suggestions", user, 0, data, 400, 0, NoBody)
         /\ UNCHANGED <<tasks, contexts, categories, now, api_key, arg, ret, handling>>
    ELSE /\ \E body \in {SuggestionsOf(user, data.title, data.description, rs, rd, rc, re)} :
                Handled("ai_suggestions", user, 0, data, 200, 0, body)
         /\ UNCHANGED <<tasks, contexts, categories, now, api_key, arg, ret, handling>>

\* ContextEntryViewSet.perform_create: the row as last saved
ContextCreateRow(entry, analysis) ==
    IF AnalysisRaises(analysis) THEN entry
    ELSE [entry EXCEPT
            !.processed_insights = analysis,
            !.keywords = Get(analysis.keywords, JList(<< >>)),
            !.sentiment_score =
                CalculateSentimentScore(
                    Get(analysis.sentiment, JStr(<<"n", "e", "u", "t", "r", "a", "l">>)).v[1]),
            !.priority_score = CalculatePriorityScore(analysis)]

\* POST /context/
CreateContext(user, data, ra) ==
    /\ Cardinality(DOMAIN contexts) < MaxContexts
    /\ \E id \in {NextId(contexts)},
          analysis \in {AnalyzeContext(data.content, data.source_type, ra)} :
            /\ contexts' = Insert(contexts, id,
                                  ContextCreateRow(NewContextEntry(user, data.content,
                                                                   data.source_type),
                                                   analysis))
            /\ Handled("create_context", user, 0, data,
                       IF AnalysisRaises(analysis) THEN 500 ELSE 201, id, NoBody)
    /\ UNCHANGED <<tasks, categories, now, api_key, arg, ret, handling>>

\* time passes
Tick ==
    /\ now < MaxTime
    /\ now' = now + 1
    /\ UNCHANGED <<tasks, contexts, categories, api_key, request, response, arg, ret, handling>>

(***************************************************************************)
(* What the requests carry and what the service returns to the handlers.   *)
(***************************************************************************)
DueDateInputs == {<< >>} \cup {<<d>> : d \in 0..MaxTime}

TaskData == [title : {TitleFinishUrgent, TitleBlank}, description : {<< >>},
             due_date : DueDateInputs]

UndatedTaskData == {data \in TaskData : data.due_date = << >>}

SuggestData == [title : {TitleFinishUrgent, << >>}, description : {<< >>}]

ContextData == [content : {ContentNote}, source_type : {"notes"}]

NoPatch == [title |-> << >>, status |-> << >>, due_date |-> << >>, user_id |-> << >>]

\* the requests that carry one field
PatchData ==
    {[NoPatch EXCEPT !.title = <<t>>] : t \in {TitleFinishUrgent, TitleBlank}}
        \cup {[NoPatch EXCEPT !.status = <<s>>] : s \in STATUS_CHOICES}
        \cup {[NoPatch EXCEPT !.due_date = <<d>>] : d \in DueDateInputs}
        \cup {[NoPatch EXCEPT !.user_id = <<u>>] : u \in Users}

ScoreResults == ApiResults(api_key, {ReplyScoreInRange, ReplyScoreTooHigh})

DeadlineResults == ApiResults(api_key, {ReplyDeadlineDate})

CategoryResults == ApiResults(api_key, {ReplyCategoryObject})

DescriptionResults == ApiResults(api_key, {ReplyDescription})

AnalysisResults ==
    ApiResults(api_key, {ReplyAnalysisObject, ReplyAnalysisNullSentiment, ReplyJsonArray,
                         ReplyProse})

NoCall == [fn |-> "none", outcome |-> [kind |-> "none", text |-> << >>], score |-> 0,
           deadline |-> << >>, category |-> << >>, tags |-> << >>, text |-> << >>,
           analysis |-> JObject]

NoArg == [title |-> << >>, description |-> << >>, workload |-> 0]

\* no request is being handled step by step
NoHandling == << >>

(***************************************************************************)
(* The application with no credential configured: every handler, two       *)
(* users.                                                                  *)
(***************************************************************************)
Init ==
    /\ tasks = << >>
    /\ contexts = << >>
    /\ categories = << >>
    /\ now = 0
    /\ api_key = << >>
    /\ request = NoRequest
    /\ response = NoResponse
    /\ arg = NoArg
    /\ ret = NoCall
    /\ handling = NoHandling

Next ==
    \/ \E u \in Users, data \in TaskData, rs \in ScoreResults, rd \in DeadlineResults,
          rc \in CategoryResults, re \in DescriptionResults :
            CreateTask(u, data, rs, rd, rc, re)
    \/ \E u \in Users, id \in 1..MaxTasks, data \in PatchData : UpdateTask(u, id, data)
    \/ \E u \in Users, id \in 1..MaxTasks : ToggleStatus(u, id)
    \/ \E u \in Users, id \in 1..MaxTasks : DestroyTask(u, id)
    \/ \E u \in Users : Stats(u)
    \/ \E u \in Users, data \in SuggestData, rs \in ScoreResults, rd \in DeadlineResults,
          rc \in CategoryResults, re \in DescriptionResults :
            AiSuggestions(u, data, rs, rd, rc, re)
    \/ \E u \in Users, data \in ContextData, ra \in AnalysisResults :
            CreateContext(u, data, ra)
    \/ Tick

Spec == Init /\ [][Next]_vars

(***************************************************************************)
(* One user's task creations and suggestion requests, with or without a    *)
(* credential and with every result of each service call.                  *)
(***************************************************************************)
InitService ==
    /\ tasks = << >>
    /\ contexts = << >>
    /\ categories = << >>
    /\ now = 0
    /\ api_key \in {<< >>, <<"sk-test">>}
    /\ request = NoRequest
    /\ response = NoResponse
    /\ arg = NoArg
    /\ ret = NoCall
    /\ handling = NoHandling

NextService ==
    \/ \E data \in UndatedTaskData, rs \in ScoreResults, rd \in DeadlineResults,
          rc \in CategoryResults, re \in DescriptionResults :
            CreateTask("alice", data, rs, rd, rc, re)
    \/ \E data \in SuggestData, rs \in ScoreResults, rd \in DeadlineResults,
          rc \in CategoryResults, re \in DescriptionResults :
            AiSuggestions("alice", data, rs, rd, rc, re)

SpecService == InitService /\ [][NextService]_vars

(***************************************************************************)
(* The context endpoints, with or without a credential and with every      *)
(* result of each service call.                                            *)
(***************************************************************************)
NextContext ==
    \/ \E u \in Users, data \in ContextData, ra \in AnalysisResults :
            CreateContext(u, data, ra)
    \/ \E u \in Users, data \in SuggestData, rs \in ScoreResults, rd \in DeadlineResults,
          rc \in CategoryResults, re \in DescriptionResults :
            AiSuggestions(u, data, rs, rd, rc, re)

SpecContext == InitService /\ [][NextContext]_vars

(***************************************************************************)
(* Direct calls of the fallbacks on drawn inputs.                          *)
(***************************************************************************)
Vocabulary ==
    { <<"F", "i", "n", "i", "s", "h">>,
      <<"u", "r", "g", "e", "n", "t">>,
      <<"r", "e", "p", "o", "r", "t">>,
      <<"A", "S", "A", "P">>,
      <<"O", "v", "e", "r", "d", "u", "e">>,
      <<"H", "o", "m", "e", "w", "o", "r", "k">> }

RECURSIVE TitlesOf(_)
\* the titles of exactly n words of the vocabulary, joined by single spaces
TitlesOf(n) ==
    IF n = 0 THEN {<< >>}
    ELSE IF n = 1 THEN Vocabulary
    ELSE {t \o <<" ">> \o w : t \in TitlesOf(n - 1), w \in Vocabulary}

DrawnTitles == UNION {TitlesOf(n) : n \in 0..MaxWords}

DrawnDescriptions ==
    { << >>,
      <<"D", "u", "e", " ", "F", "r", "i", "d", "a", "y">>,
      <<"C", "r", "i", "t", "i", "c", "a", "l", " ", "d", "e", "a", "d", "l", "i", "n", "e">> }

InitFallback ==
    /\ tasks = << >>
    /\ contexts = << >>
    /\ categories = << >>
    /\ now = 0
    /\ api_key = << >>
    /\ request = NoRequest
    /\ response = NoResponse
    /\ arg \in [title : DrawnTitles, description : DrawnDescriptions,
                workload : 0..MaxWorkload]
    /\ ret = NoCall
    /\ handling = NoHandling

CallFallbackPriority ==
    /\ ret.fn = "none"
    /\ ret' = [NoCall EXCEPT !.fn = "priority",
                             !.score = FallbackPriorityCalculation(arg.title, arg.description)]
    /\ UNCHANGED <<tasks, contexts, categories, now, api_key, request, response, arg, handling>>

CallFallbackDeadline ==
    /\ ret.fn = "none"
    /\ ret' = [NoCall EXCEPT !.fn = "deadline",
                             !.deadline = FallbackDeadlineSuggestion(arg.title, arg.workload, now)]
    /\ UNCHANGED <<tasks, contexts, categories, now, api_key, request, response, arg, handling>>

CallFallbackCategorization ==
    /\ ret.fn = "none"
    /\ ret' = [NoCall EXCEPT !.fn = "categorization",
                             !.category = FallbackCategorization(arg.title).category,
                             !.tags = FallbackCategorization(arg.title).tags]
    /\ UNCHANGED <<tasks, contexts, categories, now, api_key, request, response, arg, handling>>

CallFallbackDescription ==
    /\ ret.fn = "none"
    /\ ret' = [NoCall EXCEPT !.fn = "description",
                             !.text = FallbackDescriptionEnhancement(arg.title, arg.description)]
    /\ UNCHANGED <<tasks, contexts, categories, now, api_key, request, response, arg, handling>>

NextFallback ==
    \/ CallFallbackPriority
    \/ CallFallbackDeadline
    \/ CallFallbackCategorization
    \/ CallFallbackDescription

SpecFallback == InitFallback /\ [][NextFallback]_vars

(***************************************************************************)
(* Direct calls of the fallback categorizer on titles that mix the         *)
(* keywords of its buckets.                                                *)
(***************************************************************************)
BucketVocabulary ==
    { <<"H", "o", "m", "e", "w", "o", "r", "k">>,
      <<"O", "f", "f", "i", "c", "e">>,
      <<"C", "l", "e", "a", "n">>,
      <<"C", "o", "o", "k">>,
      <<"G", "y", "m">>,
      <<"D", "o", "c", "t", "o", "r">>,
      <<"R", "e", "a", "d">>,
      <<"S", "t", "u", "d", "y">>,
      <<"F", "i", "n", "i", "s", "h">> }

RECURSIVE BucketTitlesOf(_)
\* the titles of exactly n words of the bucket vocabulary, joined by single spaces
BucketTitlesOf(n) ==
    IF n = 0 THEN {<< >>}
    ELSE IF n = 1 THEN BucketVocabulary
    ELSE {t \o <<" ">> \o w : t \in BucketTitlesOf(n - 1), w \in BucketVocabulary}

InitCategorization ==
    /\ tasks = << >>
    /\ contexts = << >>
    /\ categories = << >>
    /\ now = 0
    /\ api_key = << >>
    /\ request = NoRequest
    /\ response = NoResponse
    /\ arg \in [title : UNION {BucketTitlesOf(n) : n \in 0..MaxWords},
                description : {<< >>}, workload : {0}]
    /\ ret = NoCall
    /\ handling = NoHandling

SpecCategorization == InitCategorization /\ [][CallFallbackCategorization]_vars

(***************************************************************************)
(* Direct calls of the fallback deadline at each time of the clock.        *)
(***************************************************************************)
InitDeadline ==
    /\ tasks = << >>
    /\ contexts = << >>
    /\ categories = << >>
    /\ now \in 0..MaxTime
    /\ api_key = << >>
    /\ request = NoRequest
    /\ response = NoResponse
    /\ arg \in [title : TitlesOf(1), description : {<< >>}, workload : 0..MaxWorkload]
    /\ ret = NoCall
    /\ handling = NoHandling

SpecDeadline == InitDeadline /\ [][CallFallbackDeadline]_vars

(***************************************************************************)
(* The statistics action over every small task table of two users.         *)
(***************************************************************************)
MaxStatsTasks == 3   \* rows of the task table the statistics are taken over

\* the tables of n tasks, any owner and any status
TaskTables(n) == [1..n -> {[NewTask(u) EXCEPT !.title = TitleFinishUrgent, !.status = st] :
                               u \in Users, st \in STATUS_CHOICES}]

InitStats ==
    /\ tasks \in UNION {TaskTables(n) : n \in 0..MaxStatsTasks}
    /\ contexts = << >>
    /\ categories = << >>
    /\ now = 0
    /\ api_key = << >>
    /\ request = NoRequest
    /\ response = NoResponse
    /\ arg = NoArg
    /\ ret = NoCall
    /\ handling = NoHandling

NextStats == \E u \in Users : Stats(u)

SpecStats == InitStats /\ [][NextStats]_vars

(***************************************************************************)
(* Direct calls of the fallback context analysis on drawn contents.  The   *)
(* content is passed in arg.description.                                   *)
(***************************************************************************)
ContentVocabulary ==
    { <<"F", "a", "m", "i", "l", "y">>,
      <<"e", "m", "e", "r", "g", "e", "n", "c", "y">>,
      <<"U", "r", "g", "e", "n", "t">>,
      <<"r", "e", "p", "o", "r", "t">>,
      <<"A", "S", "A", "P">>,
      <<"t", "h", "i", "s">>,
      <<"m", "e", "e", "t", "i", "n", "g">>,
      <<"t", "o", "m", "o", "r", "r", "o", "w">> }

RECURSIVE ContentsOf(_)
\* the contents of exactly n words of the content vocabulary, joined by single spaces
ContentsOf(n) ==
    IF n = 0 THEN {<< >>}
    ELSE IF n = 1 THEN ContentVocabulary
    ELSE {t \o <<" ">> \o w : t \in ContentsOf(n - 1), w \in ContentVocabulary}

InitAnalysis ==
    /\ tasks = << >>
    /\ contexts = << >>
    /\ categories = << >>
    /\ now = 0
    /\ api_key = << >>
    /\ request = NoRequest
    /\ response = NoResponse
    /\ arg \in [title : {<< >>}, description : UNION {ContentsOf(n) : n \in 0..MaxWords},
                workload : {0}]
    /\ ret = NoCall
    /\ handling = NoHandling

CallFallbackContextAnalysis ==
    /\ ret.fn = "none"
    /\ ret' = [NoCall EXCEPT !.fn = "context_analysis",
                             !.analysis = FallbackContextAnalysis(arg.description)]
    /\ UNCHANGED <<tasks, contexts, categories, now, api_key, request, response, arg, handling>>

SpecAnalysis == InitAnalysis /\ [][CallFallbackContextAnalysis]_vars

(***************************************************************************)
(* Direct calls of the suggestion engine on drawn inputs, for every        *)
(* outcome of the request it sends.                                        *)
(***************************************************************************)
ScoreTexts == {ReplyScoreInRange, ReplyScoreTooHigh, ReplyScoreWord, << >>}

DeadlineTexts == {ReplyDeadlineNone, Lower(ReplyDeadlineNone), ReplyDeadlineDate,
                  ReplyDeadlineWord, << >>}

CategoryTexts == {ReplyCategoryObject, ReplyCategoryNull, ReplyJsonArray, ReplyProse, << >>}

DescriptionTexts == {ReplyDescription, << >>}

InitEngine ==
    /\ tasks = << >>
    /\ contexts = << >>
    /\ categories = << >>
    /\ now = 0
    /\ api_key \in {<< >>, <<"sk-test">>}
    /\ request = NoRequest
    /\ response = NoResponse
    /\ arg \in [title : TitlesOf(1), description : DrawnDescriptions,
                workload : 0..MaxWorkload]
    /\ ret = NoCall
    /\ handling = NoHandling

CallPrioritizeTask ==
    /\ ret.fn = "none"
    /\ \E o \in Outcomes(ScoreTexts) :
            ret' = [NoCall EXCEPT
                       !.fn = "prioritize_task",
                       !.outcome = o,
                       !.score = PrioritizeTask(arg.title, arg.description,
                                                CallAiApi(api_key, o))]
    /\ UNCHANGED <<tasks, contexts, categories, now, api_key, request, response, arg, handling>>

CallSuggestDeadline ==
    /\ ret.fn = "none"
    /\ \E o \in Outcomes(DeadlineTexts) :
            ret' = [NoCall EXCEPT
                       !.fn = "suggest_deadline",
                       !.outcome = o,
                       !.deadline = SuggestDeadline(arg.title, arg.description, arg.workload,
                                                    CallAiApi(api_key, o), now)]
    /\ UNCHANGED <<tasks, contexts, categories, now, api_key, request, response, arg, handling>>

CallSuggestCategoriesAndTags ==
    /\ ret.fn = "none"
    /\ \E o \in Outcomes(CategoryTexts) :
            LET suggestion == SuggestCategoriesAndTags(arg.title, arg.description,
                                                       CallAiApi(api_key, o))
            IN  ret' = [NoCall EXCEPT
                           !.fn = "suggest_categories_and_tags",
                           !.outcome = o,
                           !.category = suggestion.category,
                           !.tags = suggestion.tags]
    /\ UNCHANGED <<tasks, contexts, categories, now, api_key, request, response, arg, handling>>

CallEnhanceTaskDescription ==
    /\ ret.fn = "none"
    /\ \E o \in Outcomes(DescriptionTexts) :
            ret' = [NoCall EXCEPT
                       !.fn = "enhance_task_description",
                       !.outcome = o,
                       !.text = EnhanceTaskDescription(arg.title, arg.description,
                                                       CallAiApi(api_key, o))]
    /\ UNCHANGED <<tasks, contexts, categories, now, api_key, request, response, arg, handling>>

NextEngine ==
    \/ CallPrioritizeTask
    \/ CallSuggestDeadline
    \/ CallSuggestCategoriesAndTags
    \/ CallEnhanceTaskDescription

SpecEngine == InitEngine /\ [][NextEngine]_vars

(***************************************************************************)
(* One request handled step by step: each call of the service is a request *)
(* sent and a reply awaited, and get_or_create is a lookup, an insert and, *)
(* when the insert meets the unique constraint, a second lookup.           *)
(***************************************************************************)
\* the four suggestions, in the order TaskCreateSerializer.create and ai_suggestions
\* ask for them
Stages == <<"score", "deadline", "category", "description">>

\* A slip that asks for the category before the deadline.
StageAfterSwapped(stage) ==
    CASE stage = "score" -> "category"
      [] stage = "category" -> "deadline"
      [] stage = "deadline" -> "description"
      [] OTHER -> "end"

\* the suggestion asked for after this one
StageAfter(stage) ==
    CASE stage = "score" -> "deadline"
      [] stage = "deadline" -> "category"
      [] stage = "category" -> "description"
      [] OTHER -> "end"

\* a worker that handles no request
Idle ==
    [pc |-> "idle", op |-> "none", user |-> "", title |-> << >>, description |-> << >>,
     sent |-> << >>, replies |-> << >>, score |-> 0, deadline |-> << >>,
     category |-> << >>, tags |-> << >>, text |-> << >>, lookups |-> 0, code |-> 0,
     id |-> 0]

\* the successful reply texts of a stage
StageTexts(stage) ==
    CASE stage = "score" -> ScoreTexts
      [] stage = "deadline" -> DeadlineTexts
      [] stage = "category" -> CategoryTexts
      [] OTHER -> DescriptionTexts

\* the worker after the engine function of the stage has returned, given what
\* _call_ai_api returned to it
Suggested(h, stage, resp) ==
    CASE stage = "score" ->
            [h EXCEPT !.score = PrioritizeTask(h.title, h.description, resp)]
      [] stage = "deadline" ->
            [h EXCEPT !.deadline = SuggestDeadline(h.title, h.description,
                                                   CurrentWorkload(h.user), resp, now)]
      [] stage = "category" ->
            [h EXCEPT !.category = SuggestCategoriesAndTags(h.title, h.description,
                                                            resp).category,
                      !.tags = SuggestCategoriesAndTags(h.title, h.description, resp).tags]
      [] OTHER ->
            [h EXCEPT !.text = EnhanceTaskDescription(h.title, h.description, resp)]

\* `if category_name:`
Named(h) == h.category # << >> /\ h.category[1] # ""

\* where the handler goes once the suggestion of the stage is in
Proceed(h, stage) ==
    IF stage = "category" /\ h.op = "create" /\ Named(h) THEN [h EXCEPT !.pc = "get"]
    ELSE IF StageAfter(stage) # "end" THEN [h EXCEPT !.pc = StageAfter(stage)]
    ELSE IF h.op = "create" THEN [h EXCEPT !.pc = "save"]
    ELSE [h EXCEPT !.pc = "done", !.code = 200]

\* the request reaches the handler: validation, then the first suggestion
Begin(w, op, user, data) ==
    /\ handling[w].pc = "idle"
    /\ handling' =
          [handling EXCEPT ![w] =
              IF op = "create" /\ ValidateTitle(data.title) = << >>
                  THEN [Idle EXCEPT !.pc = "done", !.op = op, !.user = user, !.code = 400]
              ELSE IF op = "ai_suggestions" /\ data.title = << >>
                  THEN [Idle EXCEPT !.pc = "done", !.op = op, !.user = user, !.code = 400]
              ELSE [Idle EXCEPT !.pc = Stages[1], !.op = op, !.user = user,
                                !.title = IF op = "create" THEN ValidateTitle(data.title)[1]
                                          ELSE data.title,
                                !.description = data.description]]
    /\ UNCHANGED <<tasks, contexts, categories, now, api_key, request, response, arg, ret>>

\* _call_ai_api with a credential: requests.post is issued
SendRequest(w) ==
    /\ handling[w].pc \in {Stages[i] : i \in DOMAIN Stages}
    /\ api_key # << >>
    /\ handling' = [handling EXCEPT ![w].sent = Append(@, handling[w].pc),
                                    ![w].pc = "await"]
    /\ UNCHANGED <<tasks, contexts, categories, now, api_key, request, response, arg, ret>>

\* requests.post returns or raises; the engine function returns its suggestion
ReceiveReply(w, outcome) ==
    /\ handling[w].pc = "await"
    /\ LET h == handling[w]
           stage == h.sent[Len(h.sent)]
           after == Suggested([h EXCEPT !.replies = Append(@, outcome.kind)], stage,
                              CallAiApi(api_key, outcome))
       IN  handling' = [handling EXCEPT ![w] = Proceed(after, stage)]
    /\ UNCHANGED <<tasks, contexts, categories, now, api_key, request, response, arg, ret>>

\* _call_ai_api without a credential returns None at once
SkipRequest(w) ==
    /\ handling[w].pc \in {Stages[i] : i \in DOMAIN Stages}
    /\ api_key = << >>
    /\ LET h == handling[w]
       IN  handling' = [handling EXCEPT ![w] = Proceed(Suggested(h, h.pc, << >>), h.pc)]
    /\ UNCHANGED <<tasks, contexts, categories, now, api_key, request, response, arg, ret>>

\* get_or_create: the lookup
GetCategory(w) ==
    /\ handling[w].pc = "get"
    /\ handling' = [handling EXCEPT
                       ![w].lookups = @ + 1,
                       ![w].pc = IF handling[w].category[1] \in CategoryNames
                                 THEN "description" ELSE "insert"]
    /\ UNCHANGED <<tasks, contexts, categories, now, api_key, request, response, arg, ret>>

\* A slip that declares the name without unique=True.
InsertRowUnconstrained(table, name) == <<Insert(table, NextId(table), name)>>

\* INSERT under the unique constraint on Category.name: << >> is the IntegrityError
InsertRow(table, name) ==
    IF \E i \in DOMAIN table : table[i] = name THEN << >>
    ELSE <<Insert(table, NextId(table), name)>>

\* get_or_create: the insert after a lookup that found nothing
InsertCategory(w) ==
    /\ handling[w].pc = "insert"
    /\ \E inserted \in {InsertRow(categories, handling[w].category[1])} :
          IF inserted = << >>
          THEN /\ handling' = [handling EXCEPT ![w].pc = "get_again"]
               /\ UNCHANGED categories
          ELSE /\ handling' = [handling EXCEPT ![w].pc = "description"]
               /\ categories' = inserted[1]
    /\ UNCHANGED <<tasks, contexts, now, api_key, request, response, arg, ret>>

\* get_or_create: the lookup after an IntegrityError
GetAgain(w) ==
    /\ handling[w].pc = "get_again"
    /\ handling' = [handling EXCEPT
                       ![w] = IF handling[w].category[1] \in CategoryNames
                              THEN [@ EXCEPT !.pc = "description", !.lookups = @ + 1]
                              ELSE [@ EXCEPT !.pc = "done", !.lookups = @ + 1,
                                             !.code = 500]]
    /\ UNCHANGED <<tasks, contexts, categories, now, api_key, request, response, arg, ret>>

\* the row TaskCreateSerializer.create hands to super().create
SavedRow(h) ==
    [NewTask(h.user) EXCEPT
        !.title = h.title,
        !.description = h.description,
        !.priority_score = h.score,
        !.suggested_deadline = h.deadline,
        !.category = IF Named(h) THEN h.category ELSE << >>,
        !.tags = IF Named(h) THEN h.tags ELSE << >>,
        !.ai_enhanced_description = h.text]

\* super().create(validated_data)
SaveTask(w) ==
    /\ handling[w].pc = "save"
    /\ \E id \in {NextId(tasks)} :
          /\ tasks' = Insert(tasks, id, SavedRow(handling[w]))
          /\ handling' = [handling EXCEPT ![w].pc = "done", ![w].code = 201, ![w].id = id]
    /\ UNCHANGED <<contexts, categories, now, api_key, request, response, arg, ret>>

\* the outcomes of the request a worker awaits
AwaitedOutcomes(w) ==
    IF handling[w].pc = "await"
    THEN Outcomes(StageTexts(handling[w].sent[Len(handling[w].sent)]))
    ELSE {}

(***************************************************************************)
(* One worker handling one creation or one suggestions request, with or    *)
(* without a credential and with every outcome of each request it sends.   *)
(***************************************************************************)
InitHandling ==
    /\ tasks = << >>
    /\ contexts = << >>
    /\ categories = << >>
    /\ now = 0
    /\ api_key \in {<< >>, <<"sk-test">>}
    /\ request = NoRequest
    /\ response = NoResponse
    /\ arg = NoArg
    /\ ret = NoCall
    /\ handling = [w \in {"w1"} |-> Idle]

NextHandling ==
    \/ \E data \in UndatedTaskData : Begin("w1", "create", "alice", data)
    \/ \E data \in SuggestData : Begin("w1", "ai_suggestions", "alice", data)
    \/ SendRequest("w1")
    \/ \E outcome \in AwaitedOutcomes("w1") : ReceiveReply("w1", outcome)
    \/ SkipRequest("w1")
    \/ GetCategory("w1")
    \/ InsertCategory("w1")
    \/ SaveTask("w1")

SpecHandling == InitHandling /\ [][NextHandling]_vars

(***************************************************************************)
(* Two task creations handled concurrently, their steps interleaved.       *)
(***************************************************************************)
Workers == {"w1", "w2"}

\* the service answers with the canonical reply of the stage, or the request times out
ConcurrentOutcomes(w) ==
    {o \in AwaitedOutcomes(w) :
        \/ o.kind = "timeout"
        \/ o.kind = "ok" /\ o.text \in {ReplyScoreInRange, ReplyDeadlineDate,
                                          ReplyCategoryObject, ReplyDescription}}

InitConcurrent ==
    /\ tasks = << >>
    /\ contexts = << >>
    /\ categories = << >>
    /\ now = 0
    /\ api_key \in {<< >>, <<"sk-test">>}
    /\ request = NoRequest
    /\ response = NoResponse
    /\ arg = NoArg
    /\ ret = NoCall
    /\ handling = [w \in Workers |-> Idle]

NextConcurrent ==
    \E w \in Workers :
        \/ \E u \in Users, data \in UndatedTaskData : Begin(w, "create", u, data)
        \/ SendRequest(w)
        \/ \E outcome \in ConcurrentOutcomes(w) : ReceiveReply(w, outcome)
        \/ SkipRequest(w)
        \/ GetCategory(w)
        \/ InsertCategory(w)
        \/ GetAgain(w)
        \/ SaveTask(w)

SpecConcurrent == InitConcurrent /\ [][NextConcurrent]_vars

(***************************************************************************)
(* C1. In every reachable state of the task store, each Task has           *)
(* completed_at non-null if and only if its status is 'completed'.         *)
(***************************************************************************)
C1_CompletedAtIffCompleted ==
    \A i \in DOMAIN tasks :
        tasks[i].completed_at # << >> <=> tasks[i].status = "completed"

\* a task that toggle_status has completed and that carries no completion time
C1_CompletedWithoutTime ==
    /\ request.op = "toggle_status"
    /\ response.code = 200
    /\ tasks[response.id].status = "completed"
    /\ tasks[response.id].completed_at = << >>

(***************************************************************************)
(* C2. toggle_status applied to a 'pending' task leaves it 'completed'     *)
(* with completed_at set to a non-null timestamp; applied to a 'completed' *)
(* task it leaves it 'pending' with completed_at cleared to null.          *)
(***************************************************************************)
C2_ToggleSetsAndClearsCompletedAt ==
    [][ (/\ request'.op = "toggle_status"
         /\ response'.code = 200
         /\ now' = now)
        => LET id == request'.id
           IN  /\ tasks[id].status = "pending"
                    => /\ tasks'[id].status = "completed"
                       /\ tasks'[id].completed_at # << >>
               /\ tasks[id].status = "completed"
                    => /\ tasks'[id].status = "pending"
                       /\ tasks'[id].completed_at = << >> ]_vars

\* a task completed through an update, then toggled back to pending: it keeps its
\* completion time
C2_PendingWithTime ==
    /\ request.op = "toggle_status"
    /\ response.code = 200
    /\ tasks[response.id].status = "pending"
    /\ tasks[response.id].completed_at # << >>

(***************************************************************************)
(* C3. Once request validation has passed, task creation and context-entry *)
(* creation always succeed (the entity is persisted and no error is        *)
(* surfaced to the caller) for every outcome of each service call.         *)
(***************************************************************************)
C3_CreationAlwaysSucceeds ==
    /\ (request.op = "create" /\ ValidateTitle(request.data.title) # << >>)
            => response.code = 201 /\ response.id \in DOMAIN tasks
    /\ request.op = "create_context"
            => response.code = 201 /\ response.id \in DOMAIN contexts

\* a context entry persisted with its defaults while the caller was sent an error
C3_ErrorAfterSave ==
    /\ request.op = "create_context"
    /\ response.code = 500
    /\ response.id \in DOMAIN contexts
    /\ contexts[response.id].processed_insights = JObject

(***************************************************************************)
(* C4. suggest_deadline returns the fallback deadline now +                *)
(* min(open_task_count + 1, 7) days whenever the call is unavailable (no   *)
(* credential, network error, timeout, non-success status) or the reply    *)
(* does not parse in the date-time format; it returns 'no deadline' only   *)
(* when the service replies with the literal "None" (case-insensitive).    *)
(***************************************************************************)
C4_DeadlineFallbackOnFailure ==
    ret.fn = "suggest_deadline" =>
        LET replied == api_key # << >> /\ ret.outcome.kind = "ok"
            text == Strip(ret.outcome.text)
            days == IF arg.workload + 1 < 7 THEN arg.workload + 1 ELSE 7
        IN  IF replied /\ Lower(text) = <<"n", "o", "n", "e">> THEN ret.deadline = << >>
            ELSE IF replied /\ Strptime(text) # << >> THEN ret.deadline = Strptime(text)
            ELSE ret.deadline = <<now + days>>

\* no deadline at all after a timeout
C4_NoDeadlineOnTimeout ==
    /\ ret.fn = "suggest_deadline"
    /\ api_key # << >>
    /\ ret.outcome.kind = "timeout"
    /\ ret.deadline = << >>

(***************************************************************************)
(* C5. Creating a task with title "Finish urgent report ASAP" and empty    *)
(* description while the external service is disabled yields a persisted   *)
(* task with priority_score = 0.9; its category is named "Personal" and    *)
(* its tags are ["personal", "general"], since the title holds none of the *)
(* words of the Work list.                                                 *)
(***************************************************************************)
\* the last request created a task from that title with the service disabled
C5_Created ==
    /\ api_key = << >>
    /\ request.op = "create"
    /\ response.code = 201
    /\ request.data.title = TitleFinishUrgent
    /\ request.data.description = << >>

C5_FinishUrgentIsPersonal ==
    C5_Created =>
        /\ response.id \in DOMAIN tasks
        /\ tasks[response.id].priority_score = 9
        /\ tasks[response.id].category = <<"Personal">>
        /\ tasks[response.id].tags = <<"personal", "general">>
        /\ "Personal" \in CategoryNames

C5_Witness ==
    /\ C5_Created
    /\ tasks[response.id].title = TitleFinishUrgent
    /\ tasks[response.id].priority_score = 9

\* C5 as stated: ... with priority_score = 0.9, category named "Work" and
\* tags = ["work", "professional"]
C5_FinishUrgentIsWork ==
    C5_Created =>
        /\ response.id \in DOMAIN tasks
        /\ tasks[response.id].priority_score = 9
        /\ tasks[response.id].category = <<"Work">>
        /\ tasks[response.id].tags = <<"work", "professional">>

(***************************************************************************)
(* C6. The priority score returned by prioritize_task, and therefore the   *)
(* priority_score stored on every created Task, lies in [0.0, 1.0] for     *)
(* every input and every service reply, including a successful reply that  *)
(* parses as a number outside that interval.                               *)
(***************************************************************************)
C6_ScoreInUnitInterval ==
    /\ ret.fn = "prioritize_task" => ret.score \in 0..10
    /\ \A i \in DOMAIN tasks : tasks[i].priority_score \in 0..10

\* the reply "1.5" returned as the score
C6_ScoreAboveOne ==
    /\ ret.fn = "prioritize_task"
    /\ ret.outcome.text = ReplyScoreTooHigh
    /\ ret.score = 15

(***************************************************************************)
(* C7. Every task-writing request that carries an empty (or whitespace-    *)
(* only) title or a due date earlier than the current time is rejected     *)
(* with a validation error and leaves the task store unchanged, for task   *)
(* creation as well as for task update.                                    *)
(***************************************************************************)
\* the request handled by this step is a creation, or an update of a task of the
\* caller's, that carries a blank title or a past due date
C7_InvalidWrite ==
    /\ now' = now
    /\ \/ /\ request'.op = "create"
          /\ \/ Strip(request'.data.title) = << >>
             \/ DueDateInPast(request'.data.due_date, now)
       \/ /\ request'.op = "update"
          /\ request'.id \in TaskQuerySet(request'.user)
          /\ \/ /\ request'.data.title # << >>
                /\ Strip(request'.data.title[1]) = << >>
             \/ /\ request'.data.due_date # << >>
                /\ DueDateInPast(request'.data.due_date[1], now)

C7_InvalidWritesRejected ==
    [][C7_InvalidWrite => response'.code = 400 /\ tasks' = tasks]_vars

\* a task created with a due date already past
C7_CreatedOverdue ==
    /\ request.op = "create"
    /\ response.code = 201
    /\ DueDateInPast(request.data.due_date, now)
    /\ tasks[response.id].due_date = request.data.due_date

(***************************************************************************)
(* C8. Every Task and ContextEntry has exactly one owning user, and no     *)
(* operation issued by user A (create, update, toggle, delete,             *)
(* suggestions, stats) changes the tasks or context entries another user B *)
(* can read or the results of B's statistics.                              *)
(***************************************************************************)
\* what a user reads: the rows of the two querysets and the statistics
C8_ViewOf(user) ==
    [tasks |-> [i \in TaskQuerySet(user) |-> tasks[i]],
     contexts |-> [i \in ContextQuerySet(user) |-> contexts[i]],
     stats |-> StatsOf(user)]

C8_UsersIsolated ==
    [][ (now' = now /\ request'.op # "none")
        => \A b \in Users \ {request'.user} : C8_ViewOf(b)' = C8_ViewOf(b) ]_vars

\* a task of alice's that alice's update has put among bob's
C8_TaskHandedOver ==
    /\ request.op = "update"
    /\ request.user = "alice"
    /\ response.code = 200
    /\ request.data.user_id = <<"bob">>
    /\ response.id \in TaskQuerySet("bob")

(***************************************************************************)
(* C9. The ai_suggestions action leaves the persistent store unchanged:    *)
(* after it returns, for any title and description and any outcome of the  *)
(* service calls, the Task, Category and ContextEntry records are those    *)
(* before the call; it creates no Category for a suggested name not seen   *)
(* before.                                                                 *)
(***************************************************************************)
C9_SuggestionsPersistNothing ==
    [][request'.op = "ai_suggestions" => UNCHANGED store]_vars

\* suggestions returned a category name the store does not hold, with a task stored
C9_Witness ==
    /\ request.op = "ai_suggestions"
    /\ response.code = 200
    /\ response.body.category = <<"Finance">>
    /\ "Finance" \notin CategoryNames
    /\ tasks # << >>

(***************************************************************************)
(* C10. The score_priority fallback returns 0.9 when at least two words of *)
(* the urgency lexicon occur in the lowercased title+description, 0.7 when *)
(* exactly one occurs and 0.5 when none occurs; so it returns one of       *)
(* {0.5, 0.7, 0.9} and is non-decreasing in the match count.               *)
(***************************************************************************)
\* the urgency lexicon of the statement
C10_Lexicon ==
    { <<"u", "r", "g", "e", "n", "t">>, <<"a", "s", "a", "p">>,
      <<"i", "m", "m", "e", "d", "i", "a", "t", "e", "l", "y">>,
      <<"d", "e", "a", "d", "l", "i", "n", "e">>, <<"d", "u", "e">>,
      <<"i", "m", "p", "o", "r", "t", "a", "n", "t">>,
      <<"c", "r", "i", "t", "i", "c", "a", "l">>,
      <<"e", "m", "e", "r", "g", "e", "n", "c", "y">> }

\* how many words of the lexicon occur in the lowercased title or description
C10_Matches(title, description) ==
    Cardinality({w \in C10_Lexicon : \/ Contains(Lower(title), w)
                                     \/ Contains(Lower(description), w)})

C10_FallbackPriorityBands ==
    ret.fn = "priority" =>
        LET n == C10_Matches(arg.title, arg.description)
        IN  /\ ret.score \in {5, 7, 9}
            /\ (n >= 2 => ret.score = 9)
            /\ (n = 1 => ret.score = 7)
            /\ (n = 0 => ret.score = 5)
            /\ \A t \in TitlesOf(1), d \in DrawnDescriptions :
                   C10_Matches(t, d) <= n
                       => FallbackPriorityCalculation(t, d) <= ret.score

\* a title with no lexicon word scored 0.9 because its description has two
C10_Witness ==
    /\ ret.fn = "priority"
    /\ ret.score = 9
    /\ C10_Matches(arg.title, << >>) = 0
    /\ C10_Matches(arg.title, arg.description) >= 2

(***************************************************************************)
(* C11. The suggest_category_and_tags fallback is a total function of the  *)
(* lowercased title only: every title maps to exactly one of the five      *)
(* pairs (Work, [work, professional]), (Home, [home, household]),          *)
(* (Health, [health, wellness]), (Learning, [learning, education]),        *)
(* (Personal, [personal, general]); when keywords of several buckets are   *)
(* present the first bucket in the order Work, Home, Health, Learning      *)
(* wins, and Personal is returned only when no bucket keyword is present.  *)
(***************************************************************************)
\* the buckets of the statement, in their order
C11_Buckets ==
    << [category |-> <<"Work">>, tags |-> <<"work", "professional">>],
       [category |-> <<"Home">>, tags |-> <<"home", "household">>],
       [category |-> <<"Health">>, tags |-> <<"health", "wellness">>],
       [category |-> <<"Learning">>, tags |-> <<"learning", "education">>] >>

C11_Personal == [category |-> <<"Personal">>, tags |-> <<"personal", "general">>]

\* the keywords of each bucket
C11_Keywords ==
    << { <<"w", "o", "r", "k">>, <<"j", "o", "b">>, <<"o", "f", "f", "i", "c", "e">>,
         <<"m", "e", "e", "t", "i", "n", "g">>, <<"p", "r", "o", "j", "e", "c", "t">> },
       { <<"h", "o", "m", "e">>, <<"h", "o", "u", "s", "e">>,
         <<"c", "l", "e", "a", "n">>, <<"c", "o", "o", "k">>,
         <<"g", "a", "r", "d", "e", "n">> },
       { <<"h", "e", "a", "l", "t", "h">>, <<"e", "x", "e", "r", "c", "i", "s", "e">>,
         <<"g", "y", "m">>, <<"d", "o", "c", "t", "o", "r">>,
         <<"m", "e", "d", "i", "c", "a", "l">> },
       { <<"l", "e", "a", "r", "n">>, <<"s", "t", "u", "d", "y">>,
         <<"c", "o", "u", "r", "s", "e">>, <<"b", "o", "o", "k">>,
         <<"r", "e", "a", "d">> } >>

\* a keyword of bucket b occurs in the lowercased title
C11_Present(b, title) == \E w \in C11_Keywords[b] : Contains(Lower(title), w)

C11_CategorizationByFirstBucket ==
    ret.fn = "categorization" =>
        LET got == [category |-> ret.category, tags |-> ret.tags]
            present == {b \in 1..4 : C11_Present(b, arg.title)}
        IN  /\ got \in {C11_Buckets[b] : b \in 1..4} \cup {C11_Personal}
            /\ got = FallbackCategorization(Lower(arg.title))
            /\ \A b \in present :
                   (\A a \in present : b <= a) => got = C11_Buckets[b]
            /\ got = C11_Personal <=> present = {}

\* a title with keywords of the Home and the Health buckets, filed under Home
C11_Witness ==
    /\ ret.fn = "categorization"
    /\ C11_Present(2, arg.title)
    /\ C11_Present(3, arg.title)
    /\ ~C11_Present(1, arg.title)
    /\ ret.category = <<"Home">>
    /\ ret.tags = <<"home", "household">>

C13_Owned(status) ==
    Cardinality({i \in DOMAIN tasks : /\ tasks[i].user = request.user
                                      /\ tasks[i].status \in status})

C13_StatsOverOwnTasks ==
    request.op = "stats" =>
        LET body == response.body
            total == C13_Owned(STATUS_CHOICES)
            completed == C13_Owned({"completed"})
            off == body.completion_rate * total - 1000 * completed
        IN  /\ response.code = 200
            /\ body.total = total
            /\ body.completed = completed
            /\ body.pending = C13_Owned({"pending"})
            /\ body.in_progress = C13_Owned({"in_progress"})
            /\ total = 0 => body.completion_rate = 0
            /\ total > 0 => (2 * off <= total /\ -2 * off <= total)

\* two of three tasks completed: 66.7
C13_Witness ==
    /\ request.op = "stats"
    /\ response.body.total = 3
    /\ response.body.completed = 2
    /\ response.body.completion_rate = 667

(***************************************************************************)
(* C14. On the fallback path the Context Analyzer returns a bundle whose   *)
(* priority label is "high" if any word of the urgency lexicon {urgent,    *)
(* asap, immediately, deadline, due, important, critical, emergency}       *)
(* appears in the content and "normal" otherwise, whose sentiment is       *)
(* always "neutral", and whose deadlines and action_items are always       *)
(* empty.                                                                  *)
(***************************************************************************)
\* the urgency lexicon of the statement
C14_Lexicon ==
    { <<"u", "r", "g", "e", "n", "t">>,
      <<"a", "s", "a", "p">>,
      <<"i", "m", "m", "e", "d", "i", "a", "t", "e", "l", "y">>,
      <<"d", "e", "a", "d", "l", "i", "n", "e">>,
      <<"d", "u", "e">>,
      <<"i", "m", "p", "o", "r", "t", "a", "n", "t">>,
      <<"c", "r", "i", "t", "i", "c", "a", "l">>,
      <<"e", "m", "e", "r", "g", "e", "n", "c", "y">> }

\* a word of the lexicon appears in the content
C14_Urgent(content) == \E w \in C14_Lexicon : Contains(Lower(content), w)

C14_ContextFallbackLabels ==
    ret.fn = "context_analysis" =>
        /\ ret.analysis.priorities =
               JList(<<IF C14_Urgent(arg.description) THEN "high" ELSE "normal">>)
        /\ ret.analysis.sentiment = JStr(<<"n", "e", "u", "t", "r", "a", "l">>)
        /\ ret.analysis.deadlines = JList(<< >>)
        /\ ret.analysis.action_items = JList(<< >>)

\* "Family emergency" labelled normal
C14_EmergencyIsNormal ==
    /\ ret.fn = "context_analysis"
    /\ Contains(Lower(arg.description), <<"e", "m", "e", "r", "g", "e", "n", "c", "y">>)
    /\ ret.analysis.priorities = JList(<<"normal">>)

(***************************************************************************)
(* C15. While handling one task creation or one ai_suggestions request the *)
(* service is called at most once per suggestion type, in the fixed order  *)
(* score, deadline, category, description, with each call finished before  *)
(* the next starts; a failed or timed-out call is never retried, and when   *)
(* no credential is configured no request is sent at all.                  *)
(***************************************************************************)
\* the order of the statement
C15_Order == <<"score", "deadline", "category", "description">>

C15_CallsOnceInOrder ==
    \A w \in DOMAIN handling :
        LET h == handling[w]
        IN  /\ Len(h.sent) <= Len(C15_Order)
            /\ \A i \in DOMAIN h.sent : h.sent[i] = C15_Order[i]
            /\ Len(h.replies) \in {Len(h.sent), Len(h.sent) - 1}
            /\ (Len(h.replies) < Len(h.sent)) <=> (h.pc = "await")
            /\ api_key = << >> => h.sent = << >>

\* a creation answered 201 whose first request timed out: four requests in all
C15_Witness ==
    /\ handling["w1"].op = "create"
    /\ handling["w1"].code = 201
    /\ handling["w1"].sent = C15_Order
    /\ handling["w1"].replies[1] = "timeout"
    /\ handling["w1"].replies[4] = "ok"

(***************************************************************************)
(* C16. Category names stay unique in every reachable state, including     *)
(* when two task creations run concurrently and both receive a suggestion  *)
(* naming the same category not seen before: at most one Category with     *)
(* that name is ever stored, and both creations complete with their task   *)
(* referencing that single Category.                                       *)
(***************************************************************************)
\* the rows of the Category table that carry the name
C16_Rows(name) == {i \in DOMAIN categories : categories[i] = name}

C16_CategoryNamesUnique ==
    /\ \A i, j \in DOMAIN categories : categories[i] = categories[j] => i = j
    /\ \A w \in DOMAIN handling :
           LET h == handling[w]
           IN  /\ h.code \in {0, 201, 400}
               /\ (h.code = 201 /\ h.category # << >>) =>
                      /\ h.id \in DOMAIN tasks
                      /\ tasks[h.id].category = h.category
                      /\ Cardinality(C16_Rows(h.category[1])) = 1

\* both creations were suggested "Finance" and found no such row; the insert of the
\* second met the unique constraint and its second lookup found the row of the first
C16_Witness ==
    /\ \A w \in {"w1", "w2"} :
           /\ handling[w].code = 201
           /\ handling[w].category = <<"Finance">>
           /\ tasks[handling[w].id].category = <<"Finance">>
    /\ handling["w1"].lookups = 1
    /\ handling["w2"].lookups = 2
    /\ Cardinality(C16_Rows("Finance")) = 1

====
